---- MODULE Spec2Model ----
(***************************************************************************)
(* T-Bot (src/Python/src/T-Bot.py): the per-item download / upload state   *)
(* machine of process_single, run after run on one persisted JSON store.   *)
(*                                                                         *)
(* Sizes are counted in MiB.  A timestamp is the value of the clock `now`, *)
(* which advances once per run.  Message texts, file names and URLs are    *)
(* not represented; an item is identified by its position in the store.    *)
(***************************************************************************)
EXTENDS Integers, Sequences, FiniteSets, TLC

\* ------------------------------------------------------------------ limits
\* Config.TELEGRAM_LIMITS['images'], in MiB
IMAGES_LIMIT == 10
\* Config.TELEGRAM_LIMITS['videos'], in MiB
VIDEOS_LIMIT == 50
\* Config.TELEGRAM_LIMITS['media_group']
MEDIA_GROUP_LIMIT == 10
\* Config.MAX_DOWNLOAD_ATTEMPTS
MAX_DOWNLOAD_ATTEMPTS == 10

\* ------------------------------------------------------------------ bounds
\* environment failures (load, fetch, publish, save) injected in one behaviour
MaxFaults == 3
\* the clock stops advancing at this value
MaxClock == 2
\* the lifetime count of unrecoverable alerts of an item saturates here
MaxAlerts == 2

\* ------------------------------------------------------------------ values
\* item without a 'tweet_id' key
NoTweet == 0
\* no file of that name in the download directory / no 'size_mb' key
NoFile == -1

SPECIAL == {"spaces", "broadcasts"}
MEDIA == {"images", "videos"}

\* an absent 'download_info' / 'upload_info' key
NoDownloadInfo == [st |-> "none", size_mb |-> NoFile, download_attempts |-> 0]
NoUploadInfo == [st |-> "none", error_type |-> "-", notification_sent |-> FALSE, message_id |-> 0, timestamp |-> 0]

\* one record of the JSON store as it is created externally; size is the size
\* of the content behind the item's url, meta_ok tells whether user,
\* publish_time and full_text are well-formed (a caption can be built)
NewItem(tweet, kind, size, meta_ok, attempts) ==
    [tweet_id |-> tweet, media_type |-> kind, size |-> size, meta_ok |-> meta_ok,
     is_downloaded |-> FALSE,
     download_info |-> IF attempts = 0 THEN NoDownloadInfo
                       ELSE [st |-> "fail", size_mb |-> NoFile, download_attempts |-> attempts],
     is_uploaded |-> FALSE,
     upload_info |-> NoUploadInfo]

\* the stores a behaviour starts from
Layouts ==
    { \* three images of one tweet, the second one over the image limit
      << NewItem(1, "images", 5, TRUE, 0), NewItem(1, "images", 20, TRUE, 0), NewItem(1, "images", 5, TRUE, 0) >>,
      \* three images of one tweet, the first one out of download attempts
      << NewItem(1, "images", 5, TRUE, 10), NewItem(1, "images", 5, TRUE, 0), NewItem(1, "images", 5, TRUE, 0) >>,
      \* a lone video one failure short of the ceiling, a space and a video of a second tweet
      << NewItem(1, "videos", 20, TRUE, 9), NewItem(2, "spaces", 0, TRUE, 0), NewItem(2, "videos", 60, TRUE, 0) >>,
      \* two images and a video of one tweet, the first image with malformed display metadata
      << NewItem(1, "images", 5, FALSE, 0), NewItem(1, "images", 5, TRUE, 9), NewItem(1, "videos", 20, TRUE, 0) >>,
      \* two images of one tweet, the second one failure short of the ceiling, and an item without tweet_id
      << NewItem(1, "images", 5, TRUE, 0), NewItem(1, "images", 5, TRUE, 9), NewItem(NoTweet, "images", 5, TRUE, 0) >>,
      \* a broadcast with malformed metadata, a lone image with malformed metadata, a lone oversized image
      << NewItem(1, "broadcasts", 0, FALSE, 0), NewItem(2, "images", 5, FALSE, 0), NewItem(3, "images", 20, TRUE, 0) >>,
      \* two images of one tweet with an image of another tweet, of a smaller id, between them
      << NewItem(2, "images", 5, TRUE, 0), NewItem(1, "images", 5, TRUE, 0), NewItem(2, "images", 5, TRUE, 0) >>,
      \* one image more than a media group takes, all of one tweet
      [i \in 1..(MEDIA_GROUP_LIMIT + 1) |-> NewItem(1, "images", 5, TRUE, 0)] }

\* store is the sequence last written to the JSON file in full; torn tells
\* that a later write over it stopped part-way, so that the file cannot be
\* parsed any more
VARIABLES store, torn, data, disk, pc, g, k, now, next_msg, faults, exc, log, unrec

\* the last caption built from arguments of its own, with those arguments;
\* process_single leaves it alone
VARIABLES caption

vars == <<store, torn, data, disk, pc, g, k, now, next_msg, faults, exc, log, unrec, caption>>

Min(a, b) == IF a < b THEN a ELSE b

\* ------------------------------------------------------------------ events
\* what a run does to the outside world, in order
Fetch(i, outcome) == [op |-> "fetch", items |-> <<i>>, arg |-> outcome]
Alert(kind, i) == [op |-> "alert", items |-> <<i>>, arg |-> kind]
Publish(call, items, resp) == [op |-> call, items |-> items, arg |-> resp]
AbortAlert == [op |-> "alert", items |-> <<>>, arg |-> "abort"]


\* ------------------------------------------------------------------ DownloadManager
_is_special_type(item) == item.media_type \in SPECIAL

\* item.get('download_info', {}).get('download_attempts', 0)
download_attempts(item) ==
    IF item.download_info.st = "none" THEN 0 ELSE item.download_info.download_attempts

_handle_special_type(item) ==
    IF item.is_downloaded THEN item
    ELSE [item EXCEPT !.is_downloaded = TRUE,
                      !.download_info = [st |-> "ok", size_mb |-> 0, download_attempts |-> 0]]

\* variant: the failure record is built afresh each time
_handle_max_attempts_fresh(item, t) ==
    [item EXCEPT !.upload_info = [st |-> "fail", error_type |-> "max_download_attempts",
                                  notification_sent |-> FALSE, message_id |-> 0, timestamp |-> t]]

_handle_max_attempts(item, t) ==
    LET existing_info == item.upload_info
        new_info == [st |-> "fail", error_type |-> "max_download_attempts",
                     notification_sent |-> IF existing_info.st = "fail"
                                           THEN existing_info.notification_sent ELSE FALSE,
                     message_id |-> 0,
                     timestamp |-> IF existing_info.st # "none"
                                   THEN existing_info.timestamp ELSE t]
    IN [item EXCEPT !.upload_info = new_info]

\* variant: the ceiling test written with > in place of >=
_should_skip_download_gt(item, t) ==
    IF item.is_downloaded THEN [skip |-> TRUE, item |-> item]
    ELSE IF download_attempts(item) > MAX_DOWNLOAD_ATTEMPTS
         THEN [skip |-> TRUE, item |-> _handle_max_attempts(item, t)]
         ELSE [skip |-> FALSE, item |-> item]

\* variant: the is_downloaded test left out
_should_skip_download_nodl(item, t) ==
    IF download_attempts(item) >= MAX_DOWNLOAD_ATTEMPTS
    THEN [skip |-> TRUE, item |-> _handle_max_attempts(item, t)]
    ELSE [skip |-> FALSE, item |-> item]

\* the item after the check and whether the download is skipped
_should_skip_download(item, t) ==
    IF item.is_downloaded THEN [skip |-> TRUE, item |-> item]
    ELSE IF download_attempts(item) >= MAX_DOWNLOAD_ATTEMPTS
         THEN [skip |-> TRUE, item |-> _handle_max_attempts(item, t)]
         ELSE [skip |-> FALSE, item |-> item]

\* variant: the update rebuilds the whole status of the item
_handle_download_success_fresh(item, file_size) ==
    [item EXCEPT !.is_downloaded = TRUE,
                 !.is_uploaded = FALSE,
                 !.download_info = [st |-> "ok", size_mb |-> file_size, download_attempts |-> 0]]

_handle_download_success(item, file_size) ==
    [item EXCEPT !.is_downloaded = TRUE,
                 !.download_info = [st |-> "ok", size_mb |-> file_size, download_attempts |-> 0]]

\* variant: the failure that reaches the ceiling marks the item at once
_handle_download_failure_eager(item) ==
    LET failed == [item EXCEPT !.download_info = [st |-> "fail", size_mb |-> @.size_mb,
                                                  download_attempts |-> download_attempts(item) + 1]]
    IN IF download_attempts(failed) >= MAX_DOWNLOAD_ATTEMPTS
       THEN _handle_max_attempts(failed, 0) ELSE failed

_handle_download_failure(item) ==
    [item EXCEPT !.download_info = [st |-> "fail", size_mb |-> @.size_mb,
                                    download_attempts |-> download_attempts(item) + 1]]

\* what requests.get / the chunked write can do: the whole file arrives, the
\* request fails before the file is opened, or the write stops part-way
FetchOutcomes == {"ok", "http_error", "partial"}

\* the file in the download directory after a fetch with that outcome
_download_file(item, file, outcome) ==
    CASE outcome = "ok" -> item.size
      [] outcome = "partial" -> 0
      [] OTHER -> file

\* variant: the special kinds are not told apart
process_item_nospecial(i, item, outcome, t) ==
    LET s == _should_skip_download(item, t) IN
    IF s.skip THEN [item |-> s.item, ev |-> <<>>]
    ELSE [item |-> IF outcome = "ok" THEN _handle_download_success(s.item, item.size)
                   ELSE _handle_download_failure(s.item),
          ev |-> <<Fetch(i, outcome)>>]

\* the item after process_item, and the events of the call
process_item(i, item, outcome, t) ==
    IF _is_special_type(item)
    THEN [item |-> _handle_special_type(item), ev |-> <<>>]
    ELSE LET s == _should_skip_download(item, t) IN
         IF s.skip THEN [item |-> s.item, ev |-> <<>>]
         ELSE [item |-> IF outcome = "ok" THEN _handle_download_success(s.item, item.size)
                        ELSE _handle_download_failure(s.item),
               ev |-> <<Fetch(i, outcome)>>]

\* ------------------------------------------------------------------ UploadManager
\* Config.TELEGRAM_LIMITS[media_type] for the two media kinds
TELEGRAM_LIMITS(media_type) == IF media_type = "images" THEN IMAGES_LIMIT ELSE VIDEOS_LIMIT

_build_success_info(message_id, t) ==
    [st |-> "ok", error_type |-> "-", notification_sent |-> FALSE,
     message_id |-> message_id, timestamp |-> t]

_build_error_info(error_type, t) ==
    [st |-> "fail", error_type |-> error_type, notification_sent |-> FALSE,
     message_id |-> 0, timestamp |-> t]

\* variant: the reset for the retry clears the download record too
_handle_upload_error_reset(error, i, item, t) ==
    LET error_type == IF error = "FileTooLargeError" THEN "file_too_large" ELSE "api_error"
    IN [item |-> [item EXCEPT !.upload_info = _build_error_info(error_type, t),
                              !.is_downloaded = FALSE,
                              !.download_info = NoDownloadInfo],
        ev |-> IF error_type = "api_error" THEN <<Alert("api_error", i)>> ELSE <<>>]

\* variant: no second alert for an item that already carries api_error
_handle_upload_error_dedup(error, i, item, t) ==
    LET error_type == IF error = "FileTooLargeError" THEN "file_too_large" ELSE "api_error"
    IN [item |-> [item EXCEPT !.upload_info = _build_error_info(error_type, t),
                              !.is_downloaded = FALSE],
        ev |-> IF error_type = "api_error" /\ item.upload_info.error_type # "api_error"
               THEN <<Alert("api_error", i)>> ELSE <<>>]

\* the item after the error is recorded, and the alert sent while recording
_handle_upload_error(error, i, item, t) ==
    LET error_type == IF error = "FileTooLargeError" THEN "file_too_large" ELSE "api_error"
    IN [item |-> [item EXCEPT !.upload_info = _build_error_info(error_type, t),
                              !.is_downloaded = FALSE],
        ev |-> IF error_type = "api_error" THEN <<Alert("api_error", i)>> ELSE <<>>]

\* the answer, the item after the check, and the alert sent by the check
_has_unrecoverable_error(i, item) ==
    IF item.upload_info.error_type \in {"file_too_large", "max_download_attempts"}
    THEN IF ~item.upload_info.notification_sent
         THEN [result |-> TRUE,
               item |-> [item EXCEPT !.upload_info.notification_sent = TRUE],
               ev |-> <<Alert("unrecoverable", i)>>]
         ELSE [result |-> TRUE, item |-> item, ev |-> <<>>]
    ELSE [result |-> FALSE, item |-> item, ev |-> <<>>]

_should_upload(i, item) ==
    IF item.is_uploaded THEN [result |-> FALSE, item |-> item, ev |-> <<>>]
    ELSE LET h == _has_unrecoverable_error(i, item) IN
         IF h.result THEN [result |-> FALSE, item |-> h.item, ev |-> h.ev]
         ELSE IF item.media_type \in SPECIAL THEN [result |-> TRUE, item |-> item, ev |-> <<>>]
         ELSE [result |-> item.is_downloaded, item |-> item, ev |-> <<>>]

\* variant: the size check left out
_get_file_nosize(item, file) ==
    IF file = NoFile THEN "FileNotFoundError" ELSE "ok"

\* "ok" (an open file handle) or the exception raised; file is the size of
\* the file in the download directory, NoFile when there is none
_get_file(item, file) ==
    IF file = NoFile THEN "FileNotFoundError"
    ELSE IF file > TELEGRAM_LIMITS(item.media_type) THEN "FileTooLargeError"
    ELSE "ok"

\* "ok" or the exception: the screen name, publish time and text of a
\* malformed item cannot be read or parsed
_build_caption(item) == IF item.meta_ok THEN "ok" ELSE "ValueError"

\* the exception raised before the bot is called, or "ok" when the call is made
_send_text_message(item) == IF item.meta_ok THEN "ok" ELSE "ValueError"

_send_media_file(item, file) ==
    IF _build_caption(item) # "ok" THEN _build_caption(item)
    ELSE IF file = NoFile THEN "FileNotFoundError"
    ELSE IF file > TELEGRAM_LIMITS(IF item.media_type = "images" THEN "images" ELSE "videos")
         THEN "FileTooLargeError"
    ELSE "ok"

\* the bot call a single item is sent with
SingleCall(item) ==
    IF item.media_type \in SPECIAL THEN "send_message"
    ELSE IF item.media_type = "images" THEN "send_photo" ELSE "send_video"

\* the item after _process_single_item, and the events of the call; resp is
\* what the bot call does if it is reached, message_id what it returns
_process_single_item(i, item, file, resp, message_id, t) ==
    LET su == _should_upload(i, item) IN
    IF ~su.result THEN [item |-> su.item, ev |-> su.ev]
    ELSE LET before == IF item.media_type \in SPECIAL THEN _send_text_message(item)
                       ELSE _send_media_file(item, file)
         IN IF before # "ok"
            THEN _handle_upload_error(before, i, item, t)
            ELSE IF resp = "ok"
            THEN [item |-> [item EXCEPT !.is_uploaded = TRUE,
                                        !.upload_info = _build_success_info(message_id, t)],
                  ev |-> <<Publish(SingleCall(item), <<i>>, "ok")>>]
            ELSE LET e == _handle_upload_error("TelegramError", i, item, t)
                 IN [item |-> e.item,
                     ev |-> <<Publish(SingleCall(item), <<i>>, resp)>> \o e.ev]

\* the loop of _prepare_media_group over the items still to visit: acc holds
\* the working copy, the items included so far and the events so far
RECURSIVE prepare_loop(_, _, _, _)
prepare_loop(rest, files, t, acc) ==
    IF rest = <<>> THEN acc
    ELSE LET i == Head(rest)
             item == acc.data[i]
             h == _has_unrecoverable_error(i, item)
             f == _get_file(item, files[i])
             e == _handle_upload_error(f, i, item, t)
         IN IF item.is_uploaded THEN prepare_loop(Tail(rest), files, t, acc)
            ELSE IF h.result
            THEN prepare_loop(Tail(rest), files, t,
                              [acc EXCEPT !.data[i] = h.item, !.ev = @ \o h.ev])
            ELSE IF item.media_type \in SPECIAL THEN prepare_loop(Tail(rest), files, t, acc)
            ELSE IF f # "ok"
            THEN prepare_loop(Tail(rest), files, t,
                              [acc EXCEPT !.data[i] = e.item, !.ev = @ \o e.ev])
            ELSE IF Len(acc.included) + 1 >= MEDIA_GROUP_LIMIT
            THEN [acc EXCEPT !.included = Append(@, i)]
            ELSE prepare_loop(Tail(rest), files, t, [acc EXCEPT !.included = Append(@, i)])

\* variant: the loop goes on after the group is full
RECURSIVE prepare_loop_nocap(_, _, _, _)
prepare_loop_nocap(rest, files, t, acc) ==
    IF rest = <<>> THEN acc
    ELSE LET i == Head(rest)
             item == acc.data[i]
             h == _has_unrecoverable_error(i, item)
             f == _get_file(item, files[i])
             e == _handle_upload_error(f, i, item, t)
         IN IF item.is_uploaded THEN prepare_loop_nocap(Tail(rest), files, t, acc)
            ELSE IF h.result
            THEN prepare_loop_nocap(Tail(rest), files, t,
                                    [acc EXCEPT !.data[i] = h.item, !.ev = @ \o h.ev])
            ELSE IF item.media_type \in SPECIAL THEN prepare_loop_nocap(Tail(rest), files, t, acc)
            ELSE IF f # "ok"
            THEN prepare_loop_nocap(Tail(rest), files, t,
                                    [acc EXCEPT !.data[i] = e.item, !.ev = @ \o e.ev])
            ELSE prepare_loop_nocap(Tail(rest), files, t, [acc EXCEPT !.included = Append(@, i)])

_prepare_media_group_nocap(items, d, files, t) ==
    prepare_loop_nocap(items, files, t, [data |-> d, included |-> <<>>, ev |-> <<>>])

_prepare_media_group(items, d, files, t) ==
    prepare_loop(items, files, t, [data |-> d, included |-> <<>>, ev |-> <<>>])

\* the except branch of _process_group: every item of the group that is not
\* uploaded has the error recorded
RECURSIVE group_except(_, _, _, _)
group_except(rest, error, t, acc) ==
    IF rest = <<>> THEN acc
    ELSE LET i == Head(rest)
             e == _handle_upload_error(error, i, acc.data[i], t)
         IN IF acc.data[i].is_uploaded THEN group_except(Tail(rest), error, t, acc)
            ELSE group_except(Tail(rest), error, t,
                              [acc EXCEPT !.data[i] = e.item, !.ev = @ \o e.ev])

\* the status update of _process_group: messages[idx] goes to included_items[idx]
RECURSIVE group_success(_, _, _, _)
group_success(included, idx, first_id, acc) ==
    IF idx > Len(included) THEN acc
    ELSE group_success(included, idx + 1, first_id,
             [acc EXCEPT !.data[included[idx]].is_uploaded = TRUE,
                         !.data[included[idx]].upload_info =
                             _build_success_info(first_id + idx - 1, acc.t)])

\* what bot.send_media_group can do: one message per item, an exception, or
\* a list of messages of another length (here: one message short)
BatchResponses == {"ok", "fail", "mismatch"}

\* variant: the count of the returned messages is not compared with the
\* count of the items; the messages returned are recorded on the first items
_process_group_nocount(group, d, files, resp, first_id, t) ==
    IF _build_caption(d[group[1]]) # "ok"
    THEN LET x == group_except(group, _build_caption(d[group[1]]), t, [data |-> d, ev |-> <<>>])
         IN [data |-> x.data, ev |-> x.ev, raised |-> TRUE]
    ELSE LET p == _prepare_media_group(group, d, files, t) IN
         IF p.included = <<>> THEN [data |-> p.data, ev |-> p.ev, raised |-> FALSE]
         ELSE LET sent == p.ev \o <<Publish("send_media_group", p.included, resp)>> IN
              IF resp = "fail"
              THEN LET x == group_except(group, "TelegramError", t, [data |-> p.data, ev |-> sent])
                   IN [data |-> x.data, ev |-> x.ev, raised |-> FALSE]
              ELSE [data |-> group_success(
                                 IF resp = "ok" THEN p.included
                                 ELSE SubSeq(p.included, 1, Len(p.included) - 1),
                                 1, first_id, [data |-> p.data, t |-> t]).data,
                    ev |-> sent, raised |-> FALSE]

\* the working copy after _process_group, the events of the call, and whether
\* an exception leaves the method; first_id is the first message id returned
_process_group(items, d, files, resp, first_id, t) ==
    IF _build_caption(d[items[1]]) # "ok"
    THEN \* the except branch runs, then the finally branch reads media_group,
         \* which was never bound: UnboundLocalError leaves the method
         LET x == group_except(items, _build_caption(d[items[1]]), t,
                               [data |-> d, ev |-> <<>>])
         IN [data |-> x.data, ev |-> x.ev, raised |-> TRUE]
    ELSE LET p == _prepare_media_group(items, d, files, t) IN
         IF p.included = <<>> THEN [data |-> p.data, ev |-> p.ev, raised |-> FALSE]
         ELSE LET sent == p.ev \o <<Publish("send_media_group", p.included, resp)>> IN
              IF resp = "ok"
              THEN [data |-> group_success(p.included, 1, first_id,
                                           [data |-> p.data, t |-> t]).data,
                    ev |-> sent, raised |-> FALSE]
              ELSE LET x == group_except(items,
                                         IF resp = "mismatch" THEN "ValueError" ELSE "TelegramError",
                                         t, [data |-> p.data, ev |-> sent])
                   IN [data |-> x.data, ev |-> x.ev, raised |-> FALSE]

\* ------------------------------------------------------------------ captions
\* Config.TELEGRAM_LIMITS['caption']
CAPTION_LIMIT == 1024

\* a string is the sequence of its characters; a string of n characters
\* whose characters tell their places apart
Letters == <<"a", "b", "c", "d", "e">>
Str(n) == [i \in 1..n |-> Letters[(i % 5) + 1]]

\* s[:n] of Python: the first n characters, all of s when it is shorter, and
\* for a negative n all but the last -n characters
PySlice(s, n) ==
    IF n >= 0 THEN SubSeq(s, 1, Min(n, Len(s)))
    ELSE IF Len(s) + n > 0 THEN SubSeq(s, 1, Len(s) + n) ELSE <<>>

\* datetime.fromisoformat(...).strftime("%Y-%m-%d %H:%M:%S"): 19 characters
publish_time ==
    <<"2", "0", "2", "5", "-", "0", "1", "-", "3", "1", " ", "2", "3", ":", "5", "9", ":", "5", "9">>

\* f"{user_info}\n{publish_time}"
base_info(screen_name, name) == <<"#">> \o screen_name \o <<" ">> \o name \o <<"\n">> \o publish_time

\* the caption _build_caption returns for an item with that user and text
_build_caption_text(screen_name, name, full_text) ==
    LET remaining == CAPTION_LIMIT - Len(base_info(screen_name, name)) - 1
        truncated == IF Len(full_text) > remaining
                     THEN PySlice(full_text, remaining - 3) \o <<".", ".", ".">>
                     ELSE full_text
    IN base_info(screen_name, name) \o <<"\n">> \o truncated

\* no caption built yet
NoCaption == [screen_name |-> <<>>, name |-> <<>>, full_text |-> <<>>, out |-> <<>>]

\* ------------------------------------------------------------------ process_single
Indices(d) == [i \in 1..Len(d) |-> i]

\* the tweet ids of the items in first-seen order, each by its first item
FirstSeen(d) ==
    SelectSeq(Indices(d), LAMBDA i: /\ d[i].tweet_id # NoTweet
                                    /\ \A j \in 1..(i - 1): d[j].tweet_id # d[i].tweet_id)

\* variant: an item without tweet_id is a group of its own, in first-seen order
FirstSeen_singletons(d) ==
    SelectSeq(Indices(d), LAMBDA i: \/ d[i].tweet_id = NoTweet
                                    \/ \A j \in 1..(i - 1): d[j].tweet_id # d[i].tweet_id)

grouped_items_singletons(d) ==
    [n \in 1..Len(FirstSeen_singletons(d)) |->
        IF d[FirstSeen_singletons(d)[n]].tweet_id = NoTweet
        THEN <<FirstSeen_singletons(d)[n]>>
        ELSE SelectSeq(Indices(d), LAMBDA i: d[i].tweet_id = d[FirstSeen_singletons(d)[n]].tweet_id)]

\* variant: the groups are taken by ascending tweet id
grouped_items_sorted(d) ==
    LET ids == {d[i].tweet_id: i \in 1..Len(d)} \ {NoTweet}
        nth(n) == CHOOSE t \in ids: Cardinality({u \in ids: u < t}) = n - 1
    IN [n \in 1..Cardinality(ids) |-> SelectSeq(Indices(d), LAMBDA i: d[i].tweet_id = nth(n))]

\* grouped_items.items(): the groups in insertion order, each the positions
\* of its items in store order; an item without tweet_id is in no group
grouped_items(d) ==
    [n \in 1..Len(FirstSeen(d)) |->
        SelectSeq(Indices(d), LAMBDA i: d[i].tweet_id = d[FirstSeen(d)[n]].tweet_id)]

\* the group being processed and the item the loop is at
items == grouped_items(data)[g]
cur == items[k]

\* the number of unrecoverable alerts for item i among the events
AlertsFor(ev, i) == Cardinality({n \in 1..Len(ev): ev[n] = Alert("unrecoverable", i)})

Notified(ev) == [i \in DOMAIN unrec |-> Min(unrec[i] + AlertsFor(ev, i), MaxAlerts)]

\* the message ids used up by the events: one per confirmation returned
Confirmations(ev) ==
    LET n == {m \in 1..Len(ev): ev[m].op \notin {"fetch", "alert"}}
        of(m) == CASE ev[m].arg = "ok" -> Len(ev[m].items)
                   [] ev[m].arg = "mismatch" -> Len(ev[m].items) - 1
                   [] OTHER -> 0
        RECURSIVE sum(_)
        sum(S) == IF S = {} THEN 0 ELSE LET m == CHOOSE x \in S: TRUE IN of(m) + sum(S \ {m})
    IN sum(n)

\* the environment failures a behaviour can still draw when it starts: the
\* whole budget, or two for the store of eleven items
FaultsLeft(s) == IF Len(s) > MEDIA_GROUP_LIMIT THEN 2 ELSE MaxFaults

Init ==
    /\ store \in Layouts
    /\ torn = FALSE
    /\ data = store
    /\ disk = [i \in 1..Len(store) |-> NoFile]
    /\ pc = "idle"
    /\ g = 1
    /\ k = 1
    /\ now = 0
    /\ next_msg = 1
    /\ faults = MaxFaults - FaultsLeft(store)
    /\ exc = "none"
    /\ log = <<>>
    /\ unrec = [i \in 1..Len(store) |-> 0]
    /\ caption = NoCaption

\* an environment failure is drawn only while the budget lasts
MayFail == faults < MaxFaults

\* processor.load_data() and the grouping
load_data ==
    /\ pc = "idle"
    /\ now' = Min(now + 1, MaxClock)
    /\ log' = <<>>
    /\ g' = 1
    /\ k' = 1
    /\ \/ /\ ~torn
          /\ data' = store
          /\ pc' = IF Len(grouped_items(store)) = 0 THEN "save" ELSE "download"
          /\ exc' = "none"
          /\ faults' = faults
       \/ \* the file cannot be opened or read, or its text is not JSON
          /\ torn \/ MayFail
          /\ data' = data
          /\ pc' = "except"
          /\ exc' = "load"
          /\ faults' = IF torn THEN faults ELSE faults + 1
    /\ UNCHANGED <<store, torn, disk, next_msg, unrec, caption>>

\* one turn of the download loop of the current group
download_item ==
    /\ pc = "download"
    /\ \E outcome \in FetchOutcomes:
          LET r == IF data[cur].is_downloaded
                   THEN [item |-> data[cur], ev |-> <<>>]
                   ELSE process_item(cur, data[cur], outcome, now)
              fetched == r.ev # <<>>
          IN /\ outcome # "ok" => fetched /\ MayFail
             /\ data' = [data EXCEPT ![cur] = r.item]
             /\ disk' = IF fetched
                        THEN [disk EXCEPT ![cur] = _download_file(data[cur], @, outcome)]
                        ELSE disk
             /\ log' = log \o r.ev
             /\ faults' = IF outcome # "ok" THEN faults + 1 ELSE faults
    /\ IF k < Len(items) THEN k' = k + 1 /\ pc' = pc ELSE k' = 1 /\ pc' = "text"
    /\ UNCHANGED <<store, torn, g, now, next_msg, exc, unrec, caption>>

\* process_items, first part: one turn of the loop over the text items
upload_text_item ==
    /\ pc = "text"
    /\ \E resp \in {"ok", "fail"}:
          LET r == IF data[cur].media_type \in SPECIAL /\ ~data[cur].is_uploaded
                   THEN _process_single_item(cur, data[cur], disk[cur], resp, next_msg, now)
                   ELSE [item |-> data[cur], ev |-> <<>>]
              called == \E n \in 1..Len(r.ev): r.ev[n].op = "send_message"
          IN /\ resp # "ok" => called /\ MayFail
             /\ data' = [data EXCEPT ![cur] = r.item]
             /\ log' = log \o r.ev
             /\ unrec' = Notified(r.ev)
             /\ next_msg' = next_msg + Confirmations(r.ev)
             /\ faults' = IF resp # "ok" THEN faults + 1 ELSE faults
    /\ IF k < Len(items) THEN k' = k + 1 /\ pc' = pc ELSE k' = 1 /\ pc' = "media"
    /\ UNCHANGED <<store, torn, disk, g, now, exc, caption>>

\* the media items of the group that are not uploaded
media_items == SelectSeq(items, LAMBDA i: data[i].media_type \in MEDIA /\ ~data[i].is_uploaded)

\* process_items, second part: the media items, alone or as a group
upload_media ==
    /\ pc = "media"
    /\ \E resp \in BatchResponses:
          LET r == IF Len(media_items) = 0
                   THEN [data |-> data, ev |-> <<>>, raised |-> FALSE]
                   ELSE IF Len(media_items) = 1
                   THEN LET i == media_items[1]
                            one == _process_single_item(i, data[i], disk[i], resp, next_msg, now)
                        IN [data |-> [data EXCEPT ![i] = one.item], ev |-> one.ev, raised |-> FALSE]
                   ELSE _process_group(media_items, data, disk, resp, next_msg, now)
              called == \E n \in 1..Len(r.ev): r.ev[n].op \notin {"fetch", "alert"}
          IN /\ resp # "ok" => called /\ MayFail
             /\ resp = "mismatch" => Len(media_items) > 1
             /\ data' = r.data
             /\ log' = log \o r.ev
             /\ unrec' = Notified(r.ev)
             /\ next_msg' = next_msg + Confirmations(r.ev)
             /\ faults' = IF resp # "ok" THEN faults + 1 ELSE faults
             /\ IF r.raised THEN pc' = "except" /\ exc' = "UnboundLocalError" /\ g' = g
                ELSE IF g < Len(grouped_items(data)) THEN pc' = "download" /\ exc' = exc /\ g' = g + 1
                ELSE pc' = "save" /\ exc' = exc /\ g' = g
    /\ k' = 1
    /\ UNCHANGED <<store, torn, disk, now, caption>>

\* variant: what is written is the items of the groups, not the list loaded
save_data_grouped ==
    /\ pc = "save"
    /\ \/ /\ store' = LET kept == SelectSeq(Indices(data), LAMBDA i: data[i].tweet_id # NoTweet)
                       IN [n \in 1..Len(kept) |-> data[kept[n]]]
          /\ torn' = torn
          /\ pc' = "idle"
          /\ exc' = exc
          /\ faults' = faults
       \/ /\ MayFail
          /\ store' = store
          /\ torn' \in BOOLEAN
          /\ pc' = "except"
          /\ exc' = "save"
          /\ faults' = faults + 1
    /\ UNCHANGED <<data, disk, g, k, now, next_msg, log, unrec, caption>>

\* processor.save_data(data)
save_data ==
    /\ pc = "save"
    /\ \/ /\ store' = data
          /\ torn' = torn
          /\ pc' = "idle"
          /\ exc' = exc
          /\ faults' = faults
       \/ \* the file cannot be opened (nothing is written), or the write over
          \* the old text stops part-way (what is left is no JSON text)
          /\ MayFail
          /\ store' = store
          /\ torn' \in BOOLEAN
          /\ pc' = "except"
          /\ exc' = "save"
          /\ faults' = faults + 1
    /\ UNCHANGED <<data, disk, g, k, now, next_msg, log, unrec, caption>>

\* variant: the list is saved on the way out of a failed run as well
process_single_except_save ==
    /\ pc = "except"
    /\ log' = Append(log, AbortAlert)
    /\ pc' = "idle"
    /\ store' = IF exc = "load" THEN store ELSE data
    /\ UNCHANGED <<torn, data, disk, g, k, now, next_msg, faults, exc, unrec, caption>>

\* the except branch of process_single: one alert, and the error is raised again
process_single_except ==
    /\ pc = "except"
    /\ log' = Append(log, AbortAlert)
    /\ pc' = "idle"
    /\ UNCHANGED <<store, torn, data, disk, g, k, now, next_msg, faults, exc, unrec, caption>>

Next ==
    \/ load_data
    \/ download_item
    \/ upload_text_item
    \/ upload_media
    \/ save_data
    \/ process_single_except

Spec == Init /\ [][Next]_vars

\* ------------------------------------------------------------------ caption building on its own
\* the lengths of the screen name, of the display name and of the text the
\* captions are built from: short ones, and ones that bring the two header
\* lines to a few characters below, at and above the caption limit
ScreenNameLens == {0, 15}
NameLens == {0, 50} \cup (975..990)
TextLens == {0, 1, 2, 3, 4, 10, 1000, 1024, 1100}

\* one call of _build_caption, the first of a behaviour
build_caption ==
    /\ caption = NoCaption
    /\ \E sn \in ScreenNameLens, nm \in NameLens, n \in TextLens:
          caption' = [screen_name |-> Str(sn), name |-> Str(nm), full_text |-> Str(n),
                      out |-> _build_caption_text(Str(sn), Str(nm), Str(n))]
    /\ UNCHANGED <<store, torn, data, disk, pc, g, k, now, next_msg, faults, exc, log, unrec>>

CaptionSpec == Init /\ [][build_caption]_vars

\* ------------------------------------------------------------------ claims
Items == 1..Len(store)

\* the run is past load_data and works on its copy of the store
InRun == pc \in {"download", "text", "media", "save"}

\* the item as the program holds it: the working copy during a run, the
\* persisted record otherwise
Rec(i) == IF InRun THEN data[i] ELSE store[i]

\* the events the step adds to the log of the run (load_data starts a new log)
NewEvents == IF Len(log') >= Len(log) THEN SubSeq(log', Len(log) + 1, Len(log')) ELSE log'

IsPublish(e) == e.op \notin {"fetch", "alert"}

\* the step fetches item i / submits item i in a publish request
Fetched(i) == \E n \in 1..Len(NewEvents): NewEvents[n].op = "fetch" /\ NewEvents[n].items = <<i>>
Submitted(i) ==
    \E n \in 1..Len(NewEvents):
        IsPublish(NewEvents[n]) /\ \E m \in 1..Len(NewEvents[n].items): NewEvents[n].items[m] = i

AtCeiling(item) == download_attempts(item) >= MAX_DOWNLOAD_ATTEMPTS

Terminal(item) == item.upload_info.error_type \in {"file_too_large", "max_download_attempts"}

\* C1: for an item with a terminal condition (file_too_large or
\* max_download_attempts) the unrecoverable alert is fired exactly once over
\* the item's lifetime: no item ever has a second unrecoverable alert.
C1_AlertFiredOnce ==
    \A i \in Items: unrec[i] <= 1

\* C2: once an item's download_attempts is at the ceiling, in the persisted
\* store or in the working copy of the run in progress, no step fetches the
\* item, and the counter stays at the ceiling: for the rest of the run in the
\* working copy, and for good in the store and in every copy loaded from it.
C2_NoFetchAtCeiling ==
    [][\A i \in Items:
          /\ AtCeiling(store[i]) =>
                /\ ~Fetched(i)
                /\ AtCeiling(store'[i])
                /\ InRun' => AtCeiling(data'[i])
          /\ InRun /\ AtCeiling(data[i]) =>
                /\ ~Fetched(i)
                /\ InRun' => AtCeiling(data'[i])
                /\ pc' = "idle" => AtCeiling(store'[i])]_vars

\* an item at the ceiling whose terminal mark an upload failure of its group
\* had replaced by api_error has gone through download processing again
C2_Witness ==
    /\ pc = "text"
    /\ \E i \in Items:
          /\ AtCeiling(store[i])
          /\ store[i].upload_info.error_type = "api_error"
          /\ ~store[i].is_downloaded
          /\ data[i].upload_info.error_type = "max_download_attempts"

\* C3: the download_attempts counter of an item changes only when a fetch of
\* that item fails (by exactly +1) or succeeds (to 0), in every step of a run
\* and in the save; a fetch always has that effect.  (A run that aborts drops
\* its working copy; the persisted counter is not changed by that either.)
C3_AttemptsOnlyByFetch ==
    [][\A i \in Items:
          LET before == download_attempts(Rec(i))
              after == download_attempts(Rec(i)')
              failed == \E n \in 1..Len(NewEvents): NewEvents[n].op = "fetch"
                            /\ NewEvents[n].items = <<i>> /\ NewEvents[n].arg # "ok"
              succeeded == NewEvents = <<Fetch(i, "ok")>>
          IN /\ download_attempts(store'[i]) # download_attempts(store[i]) => pc = "save"
             /\ InRun /\ pc' = "except" => download_attempts(data'[i]) = before
             /\ pc' # "except" =>
                   /\ after # before => (failed /\ after = before + 1) \/ (succeeded /\ after = 0)
                   /\ failed => after = before + 1
                   /\ succeeded => after = 0]_vars

\* an upload failure was recorded on an item whose counter is not 0
C3_Witness ==
    /\ InRun
    /\ \E i \in Items:
          /\ download_attempts(data[i]) > 0
          /\ data[i].upload_info.error_type = "api_error"
          /\ \E n \in 1..Len(log): log[n] = Alert("api_error", i)

\* C4: download processing of an item whose is_downloaded flag is true
\* performs no fetch and returns the item unchanged, whatever the fetch would
\* do, for regular and special kinds; the download loop of process_single
\* leaves such an item, the download directory and the log as they are.
C4_DownloadedIsNoOp ==
    [][/\ \A i \in Items: \A outcome \in FetchOutcomes:
             Rec(i).is_downloaded =>
                process_item(i, Rec(i), outcome, now) = [item |-> Rec(i), ev |-> <<>>]
       /\ pc = "download" /\ data[cur].is_downloaded =>
             data' = data /\ disk' = disk /\ log' = log]_vars

\* the download loop has passed a downloaded special item and stands at a
\* downloaded regular item of the same group
C4_Witness ==
    /\ pc = "download"
    /\ k = 2
    /\ store[items[1]].is_downloaded
    /\ store[items[1]].media_type \in SPECIAL
    /\ data[cur].is_downloaded
    /\ data[cur].media_type \in MEDIA

\* C5: after a batch publish that returned a number of confirmations other
\* than the number of submitted items, every item submitted in it has a
\* failure upload outcome and is_uploaded false, until the end of the run and
\* in the store the run saves.
C5_MismatchFailsWholeBatch ==
    \A n \in 1..Len(log):
        log[n].op = "send_media_group" /\ log[n].arg = "mismatch" =>
            \A m \in 1..Len(log[n].items):
                LET item == IF pc = "idle" /\ exc = "none" THEN store[log[n].items[m]]
                            ELSE data[log[n].items[m]]
                IN item.upload_info.st = "fail" /\ ~item.is_uploaded

\* a run that had a mismatched batch of two has reached its save
C5_Witness ==
    /\ pc = "save"
    /\ \E n \in 1..Len(log):
          log[n].op = "send_media_group" /\ log[n].arg = "mismatch" /\ Len(log[n].items) = 2

\* C6: no per-item or per-batch error aborts the run: the except branch of
\* process_single is entered only on a failure of load_data or save_data.
C6_OnlyLoadSaveAbort ==
    pc = "except" => exc \in {"load", "save"}

\* C7: an item whose is_uploaded flag is true, in the persisted store or in
\* the working copy of the run in progress, is in no publish request of any
\* later step, and the flag stays true: in the working copy for the rest of
\* the run, in the store the run saves, and in the store and every copy
\* loaded from it for good.
C7_UploadedNeverResent ==
    [][\A i \in Items:
          /\ store[i].is_uploaded =>
                /\ ~Submitted(i)
                /\ store'[i].is_uploaded
                /\ InRun' => data'[i].is_uploaded
          /\ InRun /\ data[i].is_uploaded =>
                /\ ~Submitted(i)
                /\ InRun' => data'[i].is_uploaded
                /\ pc' = "idle" => store'[i].is_uploaded]_vars

\* a group with an item uploaded by an earlier run has had its other items
\* published as a batch
C7_Witness ==
    /\ pc = "save"
    /\ \E i \in Items:
          /\ store[i].is_uploaded
          /\ \E n \in 1..Len(log):
                /\ log[n].op = "send_media_group"
                /\ data[log[n].items[1]].tweet_id = data[i].tweet_id

\* C8: a regular item whose is_downloaded flag is false is in no publish
\* request, single or batch, and the upload phase leaves its upload outcome
\* as it is (the notification flag of a terminal outcome apart).
C8_NotDownloadedNotSent ==
    [][\A i \in Items:
          pc \in {"text", "media"} /\ data[i].media_type \in MEDIA /\ ~data[i].is_downloaded =>
             /\ ~Submitted(i)
             /\ [data'[i].upload_info EXCEPT !.notification_sent = FALSE]
                   = [data[i].upload_info EXCEPT !.notification_sent = FALSE]]_vars

\* Scenario B before the upload of the group: the group is three image items,
\* all downloaded and none uploaded, of which big alone is over the image
\* limit, and the batch publish of this step succeeds.
ScenarioB(big, a, b) ==
    /\ pc = "media"
    /\ Len(items) = 3
    /\ {big, a, b} = {items[1], items[2], items[3]}
    /\ a < b
    /\ \A i \in {big, a, b}:
          data[i].media_type = "images" /\ data[i].is_downloaded /\ ~data[i].is_uploaded
    /\ disk[big] > IMAGES_LIMIT
    /\ disk[a] <= IMAGES_LIMIT
    /\ disk[b] <= IMAGES_LIMIT
    /\ \E n \in 1..Len(NewEvents): NewEvents[n].op = "send_media_group" /\ NewEvents[n].arg = "ok"

\* what C9 says of the batch, of the oversized item's outcome and of the two
\* other items
ScenarioBResult(big, a, b) ==
    /\ \A n \in 1..Len(NewEvents):
          IsPublish(NewEvents[n]) => NewEvents[n] = Publish("send_media_group", <<a, b>>, "ok")
    /\ data'[big].upload_info.error_type = "file_too_large"
    /\ ~data'[big].is_uploaded
    /\ data'[a].is_uploaded
    /\ data'[b].is_uploaded
    /\ data'[a].upload_info.st = "ok"
    /\ data'[b].upload_info.st = "ok"
    /\ data'[a].upload_info.message_id = next_msg
    /\ data'[b].upload_info.message_id = next_msg + 1
    /\ data'[a].upload_info.message_id # data'[b].upload_info.message_id

\* while a run is in progress no step changes an item outside the group being
\* processed, the groups are taken in order, and save_data changes no item:
\* what a group's upload leaves on its items is what the run ends with
RunFrame ==
    InRun =>
       /\ InRun' => g' >= g
       /\ LET group == IF pc = "save" THEN <<>> ELSE items
          IN \A i \in Items:
                (\A m \in 1..Len(group): group[m] # i) => data'[i] = data[i]

\* C9 as stated: in Scenario B the batch is the two other items, the
\* oversized item ends with file_too_large and exactly one alert is fired for
\* it, and the two others end uploaded with the two message ids, in order.
C9_ScenarioB_OneAlert ==
    [][pc = "media" /\ Len(items) = 3 =>
       \A big, a, b \in Items:
          ScenarioB(big, a, b) =>
             /\ ScenarioBResult(big, a, b)
             /\ AlertsFor(NewEvents, big) = 1]_vars

\* C9 amended: in Scenario B the batch is the two other items, in order, and
\* they end uploaded with the two message ids returned, in order; the
\* oversized item ends with file_too_large, and when its oversize is found in
\* this run no alert at all is fired for it in the run and notification_sent
\* stays false (the one alert is left to the first later run that evaluates
\* the item); one alert is fired in the run only if the item came into it
\* with an un-notified file_too_large outcome of an earlier run.
C9_ScenarioB_AlertDeferred ==
    [][/\ RunFrame
       /\ pc = "media" /\ Len(items) = 3 =>
          \A big, a, b \in Items:
          ScenarioB(big, a, b) =>
             /\ ScenarioBResult(big, a, b)
             /\ \A n \in 1..Len(NewEvents): NewEvents[n] # Alert("api_error", big)
             /\ IF Terminal(data[big])
                THEN /\ AlertsFor(NewEvents, big) = (IF data[big].upload_info.notification_sent THEN 0 ELSE 1)
                     /\ data'[big].upload_info.notification_sent
                ELSE /\ AlertsFor(NewEvents, big) = 0
                     /\ ~data'[big].upload_info.notification_sent
                     /\ ~data'[big].is_downloaded]_vars

\* the run of Scenario B has reached its save: the batch was items 1 and 3,
\* item 2 carries file_too_large, and no alert for item 2 is in the log
C9_Witness ==
    /\ pc = "save"
    /\ log[Len(log)] = Publish("send_media_group", <<1, 3>>, "ok")
    /\ store[2].upload_info.st = "none"
    /\ data[2].upload_info.error_type = "file_too_large"
    /\ ~data[2].upload_info.notification_sent
    /\ data[1].is_uploaded
    /\ data[3].is_uploaded
    /\ data[1].upload_info.message_id < data[3].upload_info.message_id
    /\ \A n \in 1..Len(log): log[n].op = "alert" => log[n].items # <<2>>

\* C10: a run in which the fetch of an item that came in with
\* download_attempts = 9 fails leaves the item with download_attempts = 10
\* and no max_download_attempts outcome up to its end; download processing of
\* a not-downloaded item with download_attempts = 10 marks it with the
\* max_download_attempts outcome and makes no network call: no fetch, no
\* alert, no publish, and the download directory is not touched.
C10_ScenarioA ==
    [][/\ \A i \in Items:
             /\ InRun
             /\ download_attempts(store[i]) = MAX_DOWNLOAD_ATTEMPTS - 1
             /\ \E n \in 1..Len(log): log[n].op = "fetch" /\ log[n].items = <<i>> /\ log[n].arg # "ok"
             => /\ download_attempts(data[i]) = MAX_DOWNLOAD_ATTEMPTS
                /\ data[i].upload_info.error_type # "max_download_attempts"
                /\ pc' = "idle" => /\ download_attempts(store'[i]) = MAX_DOWNLOAD_ATTEMPTS
                                   /\ store'[i].upload_info.error_type # "max_download_attempts"
       /\ /\ pc = "download"
          /\ data[cur].media_type \in MEDIA
          /\ ~data[cur].is_downloaded
          /\ download_attempts(data[cur]) = MAX_DOWNLOAD_ATTEMPTS
          => /\ log' = log
             /\ disk' = disk
             /\ data'[cur].upload_info.error_type = "max_download_attempts"
             /\ data'[cur].upload_info.st = "fail"
             /\ download_attempts(data'[cur]) = MAX_DOWNLOAD_ATTEMPTS]_vars

\* the lone video that started one failure short of the ceiling: an earlier
\* run saved it with download_attempts = 10 and no upload outcome, and this
\* run has marked it without a fetch
C10_Witness ==
    /\ pc = "text"
    /\ \E i \in Items:
          /\ data[i].media_type = "videos"
          /\ Len(items) = 1
          /\ cur = i
          /\ download_attempts(store[i]) = MAX_DOWNLOAD_ATTEMPTS
          /\ store[i].upload_info.st = "none"
          /\ data[i].upload_info.error_type = "max_download_attempts"
          /\ log = <<>>

\* C11: no batch publish request has more than MEDIA_GROUP_LIMIT items; when
\* a batch is full, the pending media items of the group that come after its
\* last item are not in the request, stay is_uploaded = false and get no
\* terminal outcome (a batch that succeeds leaves them exactly as they were);
\* and a pending media item that is alone in its group in a later run, with
\* its file downloaded and within the limit, is submitted in that run.
C11_BatchCapped ==
    [][/\ \A n \in 1..Len(NewEvents):
             IsPublish(NewEvents[n]) => Len(NewEvents[n].items) <= MEDIA_GROUP_LIMIT
       /\ \A n \in 1..Len(NewEvents):
             NewEvents[n].op = "send_media_group" /\ Len(NewEvents[n].items) = MEDIA_GROUP_LIMIT =>
                \A m \in 1..Len(media_items):
                   LET i == media_items[m] IN
                   i > NewEvents[n].items[MEDIA_GROUP_LIMIT] /\ ~Terminal(data[i]) =>
                      /\ ~Submitted(i)
                      /\ ~data'[i].is_uploaded
                      /\ ~Terminal(data'[i])
                      /\ NewEvents[n].arg = "ok" => data'[i] = data[i]
       /\ pc = "media" /\ Len(media_items) = 1 =>
             LET i == media_items[1] IN
             /\ data[i].is_downloaded
             /\ ~Terminal(data[i])
             /\ data[i].meta_ok
             /\ disk[i] # NoFile
             /\ disk[i] <= TELEGRAM_LIMITS(data[i].media_type)
             => Submitted(i)]_vars

\* a store of eleven images of one tweet: an earlier run published the first
\* ten as one batch and saved, and this run has published the eleventh alone
C11_Witness ==
    /\ Len(store) = MEDIA_GROUP_LIMIT + 1
    /\ \A i \in 1..MEDIA_GROUP_LIMIT: store[i].is_uploaded
    /\ ~store[MEDIA_GROUP_LIMIT + 1].is_uploaded
    /\ store[MEDIA_GROUP_LIMIT + 1].is_downloaded
    /\ pc = "save"
    /\ log = <<Publish("send_photo", <<MEDIA_GROUP_LIMIT + 1>>, "ok")>>
    /\ data[MEDIA_GROUP_LIMIT + 1].is_uploaded

\* the item is in one of the groups process_single goes through
InGroup(i) ==
    \E n \in 1..Len(grouped_items(data)):
        \E m \in 1..Len(grouped_items(data)[n]): grouped_items(data)[n][m] = i

\* C12 as stated: an item without tweet_id is a group of its own and is
\* processed like any other group: when the run reaches its save, a media
\* item without tweet_id that came in not downloaded and below the ceiling
\* has been fetched.
C12_NoTweetProcessed ==
    pc = "save" =>
       \A i \in Items:
          /\ data[i].tweet_id = NoTweet
          /\ data[i].media_type \in MEDIA
          /\ ~store[i].is_downloaded
          /\ ~AtCeiling(store[i])
          => \E n \in 1..Len(log): log[n].op = "fetch" /\ log[n].items = <<i>>

\* C12 amended: an item without tweet_id is in no group and the run passes
\* it over: no step fetches it or submits it in a publish request, no step
\* changes it in the working copy, and the save writes it back as it was.
C12_NoTweetSkipped ==
    [][\A i \in Items:
          store[i].tweet_id = NoTweet =>
             /\ InRun => ~InGroup(i)
             /\ ~Fetched(i)
             /\ ~Submitted(i)
             /\ \A n \in 1..Len(NewEvents): NewEvents[n].op = "alert" => NewEvents[n].items # <<i>>
             /\ InRun /\ InRun' => data'[i] = data[i]
             /\ store'[i] = store[i]]_vars

\* a run has published both images of the tweet as a batch and reached its
\* save with the item without tweet_id as it was loaded
C12_Witness ==
    /\ pc = "save"
    /\ \E n \in 1..Len(log): log[n] = Publish("send_media_group", <<1, 2>>, "ok")
    /\ data[3].tweet_id = NoTweet
    /\ data[3] = store[3]
    /\ ~data[3].is_downloaded
    /\ \A n \in 1..Len(log): log[n].items # <<3>>

\* what of an item is not status: its place in the sequence stands for the
\* file name, size for the url and meta_ok for the display metadata
Fixed(item) ==
    [tweet_id |-> item.tweet_id, media_type |-> item.media_type,
     size |-> item.size, meta_ok |-> item.meta_ok]

\* C13: no step of a run adds, deletes or reorders items, in the working
\* copy or in the store, and no step changes anything of an item but its
\* status fields (is_downloaded, download_info, is_uploaded, upload_info);
\* the working copy has the items of the store it was loaded from, in the
\* same order, and the save writes the working copy whole, so the sequence
\* saved has the items loaded, skipped ones included.
C13_OnlyStatusChanges ==
    [][/\ Len(store') = Len(store)
       /\ Len(data') = Len(data)
       /\ \A i \in Items: Fixed(store'[i]) = Fixed(store[i]) /\ Fixed(data'[i]) = Fixed(data[i])
       /\ InRun' => Len(data') = Len(store') /\ \A i \in Items: Fixed(data'[i]) = Fixed(store'[i])
       /\ pc = "idle" /\ InRun' => data' = store
       /\ pc = "save" /\ pc' = "idle" => store' = data
       /\ pc # "save" => store' = store]_vars

\* a run that changed the status of the two images of a tweet and passed
\* over an item without tweet_id has saved all three items
C13_Witness ==
    /\ pc = "idle"
    /\ exc = "none"
    /\ Len(store) = 3
    /\ store[1].is_uploaded
    /\ store[2].is_uploaded
    /\ store[3] = NewItem(NoTweet, "images", 5, TRUE, 0)

\* C14: a caption built from an author, a publish time and a text whose
\* natural caption (author line, time line, text) is longer than
\* CAPTION_LIMIT has exactly CAPTION_LIMIT characters, begins with the two
\* header lines, ends with "..." and has between the two a prefix of the
\* text, whatever the length of the header.
C14_CaptionTruncated ==
    LET base == base_info(caption.screen_name, caption.name)
        text == caption.full_text
        out == caption.out
        part == SubSeq(out, Len(base) + 2, Len(out) - 3)
    IN caption # NoCaption /\ Len(base) + 1 + Len(text) > CAPTION_LIMIT =>
          /\ Len(out) = CAPTION_LIMIT
          /\ SubSeq(out, Len(out) - 2, Len(out)) = <<".", ".", ".">>
          /\ SubSeq(out, 1, Len(base) + 1) = base \o <<"\n">>
          /\ Len(part) <= Len(text)
          /\ part = SubSeq(text, 1, Len(part))

\* C15: an item that a run saved with a file_too_large outcome is not tried
\* again: no step of a later run fetches it or submits it in a publish
\* request.
C15_TooLargeNeverRetried ==
    [][\A i \in Items:
          store[i].upload_info.error_type = "file_too_large" =>
             ~Fetched(i) /\ ~Submitted(i)]_vars

\* the number of api_error alerts for item i among the events
ApiAlertsFor(ev, i) == Cardinality({n \in 1..Len(ev): ev[n] = Alert("api_error", i)})

\* the outcome is the failure of that type recorded now: not notified
RecordedNow(item, error_type) ==
    /\ item.upload_info.st = "fail"
    /\ item.upload_info.error_type = error_type
    /\ ~item.upload_info.notification_sent
    /\ item.upload_info.timestamp = now
    /\ ~item.is_uploaded

\* C16: in every step, for every item: an api_error alert is fired only
\* while api_error is recorded on the item, which leaves it with an api_error
\* failure, notification_sent false and is_downloaded false; every item of a
\* publish request that fails, and every item whose outcome becomes or is
\* renewed as api_error, has an alert fired in that step, whatever alerts it
\* had before (one per recording: one on the single path, at most two in a
\* group, whose preparation and whose failure each record); an item whose
\* outcome becomes file_too_large was over its size limit, is left with
\* notification_sent false and is_downloaded false, and no alert of any kind
\* is fired for it in that step; no other outcome is recorded by the upload.
C16_UploadFailureRecorded ==
    [][\A i \in Items:
          LET n_api == ApiAlertsFor(NewEvents, i)
              changed == data'[i].upload_info # data[i].upload_info
              single == pc = "text" \/ Len(media_items) = 1
          IN /\ n_api > 0 =>
                   /\ pc \in {"text", "media"}
                   /\ RecordedNow(data'[i], "api_error")
                   /\ ~data'[i].is_downloaded
                   /\ n_api <= (IF single THEN 1 ELSE 2)
             /\ (\E n \in 1..Len(NewEvents):
                    /\ IsPublish(NewEvents[n]) /\ NewEvents[n].arg # "ok"
                    /\ \E m \in 1..Len(NewEvents[n].items): NewEvents[n].items[m] = i)
                => n_api >= 1
             /\ pc \in {"text", "media"} /\ changed /\ data'[i].upload_info.error_type = "api_error"
                => n_api >= 1
             /\ pc \in {"text", "media"} /\ changed /\ data'[i].upload_info.error_type = "file_too_large"
                   /\ data[i].upload_info.error_type # "file_too_large"
                => /\ RecordedNow(data'[i], "file_too_large")
                   /\ ~data'[i].is_downloaded
                   /\ disk[i] > TELEGRAM_LIMITS(data[i].media_type)
                   /\ \A n \in 1..Len(NewEvents):
                         NewEvents[n].op = "alert" => NewEvents[n].items # <<i>>
             /\ pc \in {"text", "media"} /\ changed /\ data'[i].upload_info.st = "fail"
                => data'[i].upload_info.error_type \in {"api_error", "file_too_large"}
                   \/ data'[i].upload_info = [data[i].upload_info EXCEPT !.notification_sent = TRUE]]_vars

\* an item saved with api_error by an earlier run, for which an alert was
\* fired then, has api_error recorded again and a new alert fired
C16_Witness ==
    /\ pc = "save"
    /\ \E i \in Items:
          /\ store[i].upload_info.error_type = "api_error"
          /\ store[i].upload_info.timestamp < now
          /\ RecordedNow(data[i], "api_error")
          /\ ~data[i].is_downloaded
          /\ ApiAlertsFor(log, i) = 1

\* C17: the download step of a regular item that is not downloaded and has
\* download_attempts at the ceiling fetches nothing and changes nothing of the
\* item but its upload outcome, which becomes a max_download_attempts
\* failure; the failure carries the timestamp of the outcome that was there
\* (the time of the step when there was none) and the notification_sent
\* value of a failure that was there (false when there was none to keep), so
\* that a notification_sent that is true stays true each time this is done.
C17_MaxAttemptsKeepsFlag ==
    [][/\ pc = "download"
       /\ data[cur].media_type \in MEDIA
       /\ ~data[cur].is_downloaded
       /\ download_attempts(data[cur]) >= MAX_DOWNLOAD_ATTEMPTS
       => LET old == data[cur].upload_info
              new == data'[cur].upload_info
          IN /\ log' = log
             /\ disk' = disk
             /\ \A i \in Items: i # cur => data'[i] = data[i]
             /\ data'[cur] = [data[cur] EXCEPT !.upload_info = new]
             /\ new.st = "fail"
             /\ new.error_type = "max_download_attempts"
             /\ new.timestamp = (IF old.st = "none" THEN now ELSE old.timestamp)
             /\ new.notification_sent = (old.st = "fail" /\ old.notification_sent)
             /\ old.notification_sent => new.notification_sent]_vars

\* an item saved with a notified max_download_attempts failure by an earlier
\* run has been through the download step of this run and carries the same
\* failure, flag and timestamp
C17_Witness ==
    /\ pc = "text"
    /\ \E m \in 1..Len(items):
          /\ store[items[m]].upload_info.error_type = "max_download_attempts"
          /\ store[items[m]].upload_info.notification_sent
          /\ store[items[m]].upload_info.timestamp < now
          /\ ~data[items[m]].is_downloaded
          /\ data[items[m]].upload_info = store[items[m]].upload_info

\* the number of alerts for the abort of the run among the events
AbortAlerts(ev) == Cardinality({n \in 1..Len(ev): ev[n] = AbortAlert})

\* what C18 says of every abort: the alert for the abort is fired by the
\* except branch of process_single and by no other step, once; the run ends
\* there with the error raised to the caller (pc idle with exc telling the
\* error); and no step before the save, nor the except branch, writes the
\* store file
AbortHandling ==
    /\ pc # "except" => AbortAlerts(NewEvents) = 0 /\ (pc' = "except" => exc' # "none")
    /\ pc = "except" =>
          /\ NewEvents = <<AbortAlert>>
          /\ AbortAlerts(log') = 1
          /\ pc' = "idle"
          /\ exc' = exc
          /\ exc # "none"
    /\ pc # "save" => store' = store /\ torn' = torn
    /\ pc = "idle" /\ InRun' => data' = store

\* C18 as stated: whatever failure aborts the run (load, save, or an error
\* that escapes the processing of the items), one alert is fired for the
\* abort, the error is raised again, and the store file is not written by
\* the run.
C18_AbortWritesNothing ==
    [][/\ AbortHandling
       /\ pc' = "except" => store' = store /\ torn' = torn]_vars

\* C18 amended: whatever failure aborts the run, one alert is fired for the
\* abort and the error is raised again; a run that aborts before its save
\* (load failure, or an error that escapes the processing of the items) has
\* not written the store file, so every change it made in memory is lost and
\* the next run loads the store as it was; of a run whose save fails nothing
\* is said about the file, which the failed write may have overwritten in
\* part.
C18_AbortBeforeSaveWritesNothing ==
    [][/\ AbortHandling
       /\ pc' = "except" /\ exc' # "save" => store' = store /\ torn' = torn
       /\ pc' = "except" /\ exc' = "save" => pc = "save"]_vars

\* a run that downloaded the items of a group and then aborted on the error
\* escaping from the group's upload has ended: one alert for the abort, the
\* store as it was, and the download record and the api_error outcome the run
\* wrote in memory are not in the store
C18_Witness ==
    /\ pc = "idle"
    /\ exc = "UnboundLocalError"
    /\ ~torn
    /\ AbortAlerts(log) = 1
    /\ log[Len(log)] = AbortAlert
    /\ \E i \in Items:
          /\ data[i].download_info.st = "ok"
          /\ data[i].upload_info.error_type = "api_error"
          /\ store[i].download_info.st = "none"
          /\ store[i].upload_info.st = "none"

\* C19: for every item of a special kind (spaces, broadcasts): no step
\* fetches it, it never has a file in the download directory nor a
\* file_too_large outcome; its download step, when it is not downloaded,
\* marks it downloaded with size_mb = 0 and download_attempts = 0 and does
\* nothing else; every publish request it is in is a send_message of the
\* item alone; and its is_uploaded flag is set only by the step of such a
\* request that succeeds, which records the message id returned by that
\* request, used for no other item of the step.
C19_SpecialItems ==
    [][\A i \in Items:
          store[i].media_type \in SPECIAL =>
             /\ ~Fetched(i)
             /\ disk[i] = NoFile /\ disk'[i] = NoFile
             /\ InRun' => data'[i].upload_info.error_type # "file_too_large"
             /\ pc = "download" /\ cur = i /\ ~data[i].is_downloaded =>
                   /\ data'[i] = [data[i] EXCEPT !.is_downloaded = TRUE,
                                                 !.download_info = [st |-> "ok", size_mb |-> 0,
                                                                    download_attempts |-> 0]]
                   /\ log' = log
             /\ \A n \in 1..Len(NewEvents):
                   (IsPublish(NewEvents[n]) /\ \E m \in 1..Len(NewEvents[n].items): NewEvents[n].items[m] = i)
                   => /\ NewEvents[n].op = "send_message"
                      /\ NewEvents[n].items = <<i>>
                      /\ pc = "text"
             /\ InRun /\ InRun' /\ ~data[i].is_uploaded /\ data'[i].is_uploaded =>
                   /\ NewEvents = <<Publish("send_message", <<i>>, "ok")>>
                   /\ data'[i].upload_info.st = "ok"
                   /\ data'[i].upload_info.message_id = next_msg
                   /\ next_msg' = next_msg + 1
                   /\ \A j \in Items: j # i => data'[j] = data[j]
             /\ (\E n \in 1..Len(NewEvents): NewEvents[n] = Publish("send_message", <<i>>, "ok"))
                => data'[i].is_uploaded /\ ~data[i].is_uploaded]_vars

\* the space of a tweet has been published by a send_message of its own and
\* carries the message id of that call, while the video of the same tweet is
\* still to be uploaded
C19_Witness ==
    /\ pc = "media"
    /\ Len(items) = 2
    /\ data[items[1]].media_type = "spaces"
    /\ data[items[2]].media_type = "videos"
    /\ log[Len(log)] = Publish("send_message", <<items[1]>>, "ok")
    /\ data[items[1]].is_uploaded
    /\ data[items[1]].upload_info.message_id = next_msg - 1
    /\ data[items[1]].download_info = [st |-> "ok", size_mb |-> 0, download_attempts |-> 0]
    /\ disk[items[1]] = NoFile

\* the place in the store of the first item of the tweet of item i
First(i) == CHOOSE j \in Items: /\ data[j].tweet_id = data[i].tweet_id
                                /\ \A h \in 1..(j - 1): data[h].tweet_id # data[i].tweet_id

\* C20: in the log of a run the events of the tweets come tweet after tweet,
\* in the order in which the tweets are first seen in the store; every event
\* is about items of one tweet; within a tweet no fetch comes after a publish
\* request; no item is fetched twice and no tweet has two batch requests.
C20_GroupsInOrder ==
    /\ \A n \in 1..Len(log): \A a, b \in 1..Len(log[n].items):
           data[log[n].items[a]].tweet_id = data[log[n].items[b]].tweet_id
    /\ \A n, m \in 1..Len(log):
           n < m /\ log[n].items # <<>> /\ log[m].items # <<>> =>
              LET e == log[n]
                  f == log[m]
              IN /\ First(e.items[1]) <= First(f.items[1])
                 /\ First(e.items[1]) = First(f.items[1]) /\ IsPublish(e) => f.op # "fetch"
                 /\ e.op = "fetch" /\ f.op = "fetch" => e.items # f.items
                 /\ e.op = "send_media_group" /\ f.op = "send_media_group"
                       => First(e.items[1]) # First(f.items[1])

\* the first and the third item, of the tweet seen first, were fetched and
\* published as a batch before the second item, of the other tweet, was
\* fetched and published
C20_Witness ==
    /\ pc = "save"
    /\ data[1].tweet_id = data[3].tweet_id
    /\ data[1].tweet_id > data[2].tweet_id
    /\ log = << Fetch(1, "ok"), Fetch(3, "ok"), Publish("send_media_group", <<1, 3>>, "ok"),
                Fetch(2, "ok"), Publish("send_photo", <<2>>, "ok") >>

\* C21: an item whose is_uploaded flag is true carries a success outcome
\* with the message id of its publish, in the store and in the working copy
\* of a run; and no step of a run fetches such an item or changes its upload
\* outcome.
C21_UploadedKeepsSuccess ==
    [][\A i \in Items:
          /\ store'[i].is_uploaded =>
                store'[i].upload_info.st = "ok" /\ store'[i].upload_info.message_id > 0
          /\ InRun' /\ data'[i].is_uploaded =>
                data'[i].upload_info.st = "ok" /\ data'[i].upload_info.message_id > 0
          /\ InRun /\ data[i].is_uploaded =>
                /\ ~Fetched(i)
                /\ InRun' => data'[i].upload_info = data[i].upload_info]_vars

\* the step is upload_media on a group whose batch publish does not succeed
BatchFailed ==
    /\ pc = "media"
    /\ \E n \in 1..Len(NewEvents):
          NewEvents[n].op = "send_media_group" /\ NewEvents[n].arg # "ok"

\* C22: a terminal upload outcome (file_too_large, max_download_attempts) is
\* permanent, in the working copy of a run and in the store; and a batch
\* publish that fails leaves the upload outcome (notification_sent included)
\* and the is_downloaded flag of every group item that was not submitted as
\* the preparation of the batch left them.
C22_TerminalPermanent ==
    [][\A i \in Items:
          /\ InRun /\ InRun' /\ Terminal(data[i]) => Terminal(data'[i])
          /\ Terminal(store[i]) => Terminal(store'[i])
          /\ BatchFailed /\ InGroup(i) /\ ~Submitted(i) =>
                LET p == _prepare_media_group(media_items, data, disk, now)
                IN /\ data'[i].upload_info = p.data[i].upload_info
                   /\ data'[i].is_downloaded = p.data[i].is_downloaded]_vars

\* ------------------------------------------------------------ repeated runs
\* the step out of the media part of process_items: under Next it is
\* upload_media, which can be taken whenever the run is at that point
leaves_media == pc = "media" /\ pc' \in {"download", "save", "except"}

\* the program is started again and again, and a run that has started goes on
\* to its end: the step the program is at is taken
LiveSpec ==
    /\ Init /\ [][Next]_vars
    /\ WF_vars(load_data)
    /\ WF_vars(download_item)
    /\ WF_vars(upload_text_item)
    /\ WF_pc(leaves_media)
    /\ WF_vars(save_data)
    /\ WF_vars(process_single_except)

\* a run is about to start on a store that can be read and the environment
\* has no failure left: from this run on every fetch, every publish and
\* every read or write of the store succeeds
Settled == pc = "idle" /\ ~torn /\ ~MayFail

\* the item has a tweet_id and well-formed display metadata, its content is
\* within the size limit of its type, and its download attempts are not used up
Eligible(item) ==
    /\ item.tweet_id # NoTweet
    /\ item.meta_ok
    /\ item.media_type \in MEDIA => item.size <= TELEGRAM_LIMITS(item.media_type)
    /\ ~AtCeiling(item)

\* C23: under repeated runs, once every fetch and every publish succeeds,
\* every item of the store that has a tweet_id, is within its size limit and
\* has download attempts left is uploaded after finitely many runs (stated
\* here for the items whose own metadata is well-formed, on a readable store).
C23_EligibleEventuallyUploaded ==
    Settled ~> (\A i \in Items: Eligible(store[i]) => store[i].is_uploaded)

====
